---------------------------- MODULE Spec2Model ----------------------------
(***************************************************************************)
(* Model of smart-ar-shopping/ml-service: the size recommendation engine   *)
(* and the furniture placement engine of processors/size_recommendation.py *)
(* and the request handlers of app.py.                                     *)
(*                                                                         *)
(* The service keeps no state between requests: a state of the model is    *)
(* the call in progress (operation and arguments) and what it returned.    *)
(*                                                                         *)
(* Numbers.  The code computes in binary floating point; the model         *)
(* computes the same expressions exactly, on integers with a fixed scale:  *)
(*   body and chart measurements   1/CmDen cm                              *)
(*   per-measurement score         1/ScoreDen    (100 is 100 * ScoreDen)   *)
(*   overall_score, fit_score      1/OverallDen  (100 is 100 * OverallDen) *)
(*   body confidence               percent                                 *)
(*   severity                      1/SeverityDen                           *)
(*   furniture and space lengths   1/LenDen m    (1 inch is 127 units)     *)
(*   areas                         1/(LenDen*LenDen) m^2                   *)
(*   placement confidence, room_compatibility_score   percent              *)
(* All divisions the model performs on these scales are exact, except      *)
(* where an operator says that it rounds down.                             *)
(* A non-finite float (inf, nan) is a measurement whose name is in the     *)
(* body's "special" map.                                                   *)
(***************************************************************************)
EXTENDS Integers, Sequences, FiniteSets, TLC

VARIABLES pc, call, result

vars == <<pc, call, result>>

-----------------------------------------------------------------------------
(* Helpers: Python built-ins used by the code *)

\* dict.get(key, default)
Get(d, key, default) == IF key \in DOMAIN d THEN d[key] ELSE default

Max(a, b) == IF a >= b THEN a ELSE b

Min(a, b) == IF a <= b THEN a ELSE b

Abs(a) == IF a >= 0 THEN a ELSE -a

\* Python's s[:n]
Take(s, n) == [i \in 1..Min(n, Len(s)) |-> s[i]]

\* list.sort(key=lambda x: x[field], reverse=True): descending, entries with
\* equal keys keep their order (an insertion sort is stable, as Python's sort is)
RECURSIVE InsertDesc(_, _, _)
InsertDesc(sorted, x, field) ==
    IF sorted = <<>> THEN <<x>>
    ELSE IF Head(sorted)[field] >= x[field]
         THEN <<Head(sorted)>> \o InsertDesc(Tail(sorted), x, field)
         ELSE <<x>> \o sorted

RECURSIVE SortDescFrom(_, _, _)
SortDescFrom(done, rest, field) ==
    IF rest = <<>> THEN done
    ELSE SortDescFrom(InsertDesc(done, Head(rest), field), Tail(rest), field)

SortDesc(s, field) == SortDescFrom(<<>>, s, field)

\* largest r with r * r <= n
RECURSIVE ISqrt(_)
ISqrt(n) ==
    IF n < 2 THEN n
    ELSE LET s == 2 * ISqrt(n \div 4)
         IN  IF (s + 1) * (s + 1) <= n THEN s + 1 ELSE s

-----------------------------------------------------------------------------
(* Scales *)

\* body and chart measurements are multiples of 1/CmDen cm
CmDen == 2

\* a length of whole cm
Cm(n) == n * CmDen

\* 50 / tolerance has denominator 3 or 4 for the tolerances 3, 4, 5, 6, 8
ScoreDen == 3 * 4 * CmDen

\* the weights are tenths; total_weight is 3, 4, 6, 7 or 10 tenths
WeightLcm == 3 * 4 * 5 * 7

OverallDen == ScoreDen * WeightLcm

\* severities are differences over 10 or over 15
SeverityDen == 2 * 3 * 5 * CmDen

\* lengths of the furniture engine: 1 m is LenDen units, so that an inch
\* (0.0254 m) is a whole number of units
LenDen == 10000 \div 2

\* normalized landmark coordinates are multiples of 1/NormDen, and the image
\* width and height multiples of NormDen pixels: pixel coordinates are whole
NormDen == 5 * 8

-----------------------------------------------------------------------------
(* SizeRecommendationEngine: the rule-based size scorer *)

\* a float of the body measurements: "fin", or "inf" / "nan" when the
\* measurement was computed from a zero pixel height
BodyKind(body, key) ==
    IF "special" \in DOMAIN body /\ key \in DOMAIN body.special
    THEN body.special[key] ELSE "fin"

tolerances ==
    [shirt   |-> [chest |-> 5, waist |-> 8, length |-> 3],
     pants   |-> [waist |-> 3, hip |-> 5, inseam |-> 2],
     dress   |-> [chest |-> 4, waist |-> 6, hip |-> 6],
     jacket  |-> [chest |-> 6, shoulder |-> 2, length |-> 4],
     default |-> [chest |-> 5, waist |-> 5, hip |-> 5]]

\* tolerances.get(product_type, tolerances['default'])
product_tolerance(product_type) == Get(tolerances, product_type, tolerances["default"])

\* product_tolerance.get(key, 5)
DefaultTolerance == 5

Tolerance(product_type, key) == Get(product_tolerance(product_type), key, DefaultTolerance)

\* the body measurement each chart measurement is compared with
BodyKey(key) ==
    CASE key = "chest" -> "chest_circumference"
      [] key = "waist" -> "waist_circumference"
      [] key = "hip"   -> "hip_circumference"

\* the weights 0.4, 0.3, 0.3, in tenths
ChestWeight == 4

WaistWeight == 3

HipWeight == 3

Weight(key) ==
    CASE key = "chest" -> ChestWeight
      [] key = "waist" -> WaistWeight
      [] key = "hip"   -> HipWeight

\* abs(body - chart)
MeasurementDiff(body_value, chart_value) == Abs(body_value - chart_value)

\* the score without max(0, ...)
MeasurementScore_NoFloor(diff, tolerance) ==
    100 * ScoreDen - (diff * 50 * ScoreDen) \div Cm(tolerance)

\* max(0, 100 - (diff / tolerance) * 50), in 1/ScoreDen
MeasurementScore(diff, tolerance) ==
    Max(0, 100 * ScoreDen - (diff * 50 * ScoreDen) \div Cm(tolerance))

\* _get_fit_description(difference, tolerance)
get_fit_description(difference, tolerance) ==
    IF 2 * difference < Cm(tolerance) THEN "Perfect fit"
    ELSE IF difference < Cm(tolerance) THEN "Good fit"
    ELSE IF 2 * difference < 3 * Cm(tolerance)
         THEN (IF difference > 0 THEN "Slightly loose" ELSE "Slightly tight")
         ELSE (IF difference > 0 THEN "Too loose" ELSE "Too tight")

\* one of the three blocks "Compare chest/bust", "Compare waist", "Compare hip":
\* the entry of fit_scores.  abs(inf) is inf, abs(nan) is nan; max(0, -inf) and
\* max(0, nan) are 0; every comparison with nan is false.
FitScoreEntry(body, size_measurements, product_type, key) ==
    LET kind == BodyKind(body, BodyKey(key))
        tol  == Tolerance(product_type, key)
        diff == MeasurementDiff(body[BodyKey(key)], size_measurements[key])
    IN  IF kind = "fin"
        THEN [score |-> MeasurementScore(diff, tol),
              difference |-> diff,
              fit |-> get_fit_description(diff, tol)]
        ELSE [score |-> 0,
              difference |-> 0,
              special |-> kind,
              fit |-> IF kind = "inf" THEN "Too loose" ELSE "Too tight"]

\* the measurements compared: in the size's chart entry and in the body
ComparedKeys(body, size_measurements) ==
    {key \in {"chest", "waist", "hip"} :
        key \in DOMAIN size_measurements /\ BodyKey(key) \in DOMAIN body}

fit_scores(body, size_measurements, product_type) ==
    [key \in ComparedKeys(body, size_measurements) |->
        FitScoreEntry(body, size_measurements, product_type, key)]

\* total_score, in 1/(10 * ScoreDen), and total_weight, in tenths
total_score(scores) ==
    (IF "chest" \in DOMAIN scores THEN scores["chest"].score * ChestWeight ELSE 0)
  + (IF "waist" \in DOMAIN scores THEN scores["waist"].score * WaistWeight ELSE 0)
  + (IF "hip" \in DOMAIN scores THEN scores["hip"].score * HipWeight ELSE 0)

\* total_weight without the normalisation: every weight counted, present or not
total_weight_Full(scores) ==
    ChestWeight + WaistWeight + HipWeight

total_weight(scores) ==
    (IF "chest" \in DOMAIN scores THEN ChestWeight ELSE 0)
  + (IF "waist" \in DOMAIN scores THEN WaistWeight ELSE 0)
  + (IF "hip" \in DOMAIN scores THEN HipWeight ELSE 0)

\* total_score / total_weight if total_weight > 0 else 0, in 1/OverallDen
overall_score(scores) ==
    IF total_weight(scores) > 0
    THEN (total_score(scores) * WeightLcm) \div total_weight(scores)
    ELSE 0

\* body_measurements.get('confidence', 0.8), percent
DefaultConfidence == 80

\* the entry appended to recommendations for one size of the chart; its
\* confidence is percent * 1/OverallDen (1.0 is 100 * 100 * OverallDen)
SizeRecommendation(body, entry, product_type) ==
    LET scores == fit_scores(body, entry.measurements, product_type)
    IN  [size |-> entry.size,
         overall_score |-> overall_score(scores),
         fit_scores |-> scores,
         confidence |-> Get(body, "confidence", DefaultConfidence)
                          * overall_score(scores)]

\* the list built by the loop over product_measurements.items(), in the
\* chart's order (a chart is the sequence of its items)
recommendations(body, chart, product_type) ==
    [i \in 1..Len(chart) |-> SizeRecommendation(body, chart[i], product_type)]

\* the recommendations left in the chart's order
sorted_recommendations_Unsorted(body, chart, product_type) ==
    recommendations(body, chart, product_type)

\* recommendations.sort(key=lambda x: x['overall_score'], reverse=True)
sorted_recommendations(body, chart, product_type) ==
    SortDesc(recommendations(body, chart, product_type), "overall_score")

\* the score an alternative size must exceed: 70
AlternativeThreshold == 70

\* the alternatives taken from recommendations instead of recommendations[1:]
alternative_sizes_FromBest(sorted) ==
    SelectSeq(sorted, LAMBDA r : r.overall_score > AlternativeThreshold * OverallDen)

\* [r for r in recommendations[1:] if r['overall_score'] > 70]
alternative_sizes(sorted) ==
    IF sorted = <<>> THEN <<>>
    ELSE SelectSeq(Tail(sorted),
                   LAMBDA r : r.overall_score > AlternativeThreshold * OverallDen)

\* alternative_sizes[:2]
MaxAlternatives == 2

\* _assess_measurement_quality
assess_measurement_quality(measurements) ==
    LET confidence == Get(measurements, "confidence", 0)
    IN  IF confidence > 90 THEN "Excellent"
        ELSE IF confidence > 80 THEN "Good"
        ELSE IF confidence > 70 THEN "Fair"
        ELSE "Poor - Please ensure full body is visible"

\* _rule_based_size_recommendation
rule_based_size_recommendation(body, chart, product_type) ==
    LET sorted == sorted_recommendations(body, chart, product_type)
        alts   == Take(alternative_sizes(sorted), MaxAlternatives)
    IN  [recommended_size |-> IF sorted # <<>> THEN sorted[1].size ELSE "M",
         fit_score |-> IF sorted # <<>> THEN sorted[1].overall_score ELSE 0,
         confidence |-> IF sorted # <<>> THEN sorted[1].confidence ELSE 0,
         fit_details |-> IF sorted # <<>> THEN sorted[1].fit_scores ELSE <<>>,
         alternative_sizes |->
             [i \in 1..Len(alts) |->
                 [size |-> alts[i].size, score |-> alts[i].overall_score]],
         measurement_quality |-> assess_measurement_quality(body)]

\* recommend_size: load_models finds no models/size_predictor.h5 (the
\* repository ships none), size_model is None and the rule-based scorer runs
recommend_size(body, chart, product_type) ==
    rule_based_size_recommendation(body, chart, product_type)

-----------------------------------------------------------------------------
(* SizeRecommendationEngine: the virtual fit *)

\* a size chart (product_data['measurements']) is the sequence of its items,
\* [size, measurements], in the dict's order, no size twice
ChartSizes(chart) == {chart[i].size : i \in 1..Len(chart)}

ChartEntry(chart, size) ==
    (CHOOSE i \in 1..Len(chart) : chart[i].size = size)

\* the keywords of the code that occur in a material name once lower-cased
WordsIn(name) ==
    CASE name = "Cotton"         -> {"cotton"}
      [] name = "stretch cotton" -> {"cotton", "stretch"}
      [] name = "Spandex"        -> {"spandex"}
      [] name = "elastane"       -> {"elastane"}
      [] name = "lycra"          -> {"lycra"}
      [] name = "stretch"        -> {"stretch"}
      [] name = "cotton"         -> {"cotton"}
      [] name = "linen"          -> {"linen"}
      [] name = "polyester"      -> {"polyester"}
      [] name = "nylon"          -> {"nylon"}
      [] OTHER                   -> {}

\* word in ' '.join(materials).lower(): no keyword holds a space, so a keyword
\* occurs in the joined text exactly when it occurs in one of the names
InMaterialText(materials, word) ==
    \E i \in 1..Len(materials) : word \in WordsIn(materials[i])

AnyInMaterialText(materials, words) ==
    \E word \in words : InMaterialText(materials, word)

\* stretch_factor, percent
stretch_factor(materials) ==
    IF AnyInMaterialText(materials, {"spandex", "elastane", "lycra", "stretch"})
    THEN 15
    ELSE IF InMaterialText(materials, "cotton") /\ InMaterialText(materials, "stretch")
         THEN 8
         ELSE 0

\* breathability, percent
breathability(materials) ==
    IF AnyInMaterialText(materials, {"cotton", "linen", "bamboo"}) THEN 80
    ELSE IF AnyInMaterialText(materials, {"polyester", "nylon"}) THEN 40
         ELSE 50

\* _estimate_material_properties
estimate_material_properties(materials) ==
    [stretch_factor |-> stretch_factor(materials),
     breathability |-> breathability(materials),
     thickness |-> 50,
     drape |-> 50]

\* the entry _calculate_stretch_areas appends for one measurement, as a
\* sequence of zero or one entries.  stretch_percentage is num/den percent,
\* excess is in 1/(100 * CmDen) cm.
StretchEntry(body, size_measurements, factor, key) ==
    LET kind  == BodyKind(body, BodyKey(key))
        chart == size_measurements[key]
        diff  == body[BodyKey(key)] - chart
    IN  IF ~(BodyKey(key) \in DOMAIN body /\ key \in DOMAIN size_measurements)
        THEN <<>>
        ELSE IF kind = "nan" THEN <<>>
        ELSE IF kind = "inf"
        THEN <<[area |-> key,
                stretch_percentage |-> [num |-> factor, den |-> 1],
                within_limits |-> FALSE,
                excess |-> 0, special |-> "inf"]>>
        ELSE IF diff > 0 /\ diff * 100 <= chart * factor
        THEN <<[area |-> key,
                stretch_percentage |-> [num |-> diff * 100, den |-> chart],
                within_limits |-> TRUE]>>
        ELSE IF diff * 100 > chart * factor
        THEN <<[area |-> key,
                stretch_percentage |-> [num |-> factor, den |-> 1],
                within_limits |-> FALSE,
                excess |-> diff * 100 - chart * factor]>>
        ELSE <<>>

\* _calculate_stretch_areas
calculate_stretch_areas(body, size_measurements, material_properties) ==
    StretchEntry(body, size_measurements, material_properties.stretch_factor, "chest")
 \o StretchEntry(body, size_measurements, material_properties.stretch_factor, "waist")
 \o StretchEntry(body, size_measurements, material_properties.stretch_factor, "hip")

\* chest_diff > 5 is too tight, chest_diff < -10 is too loose (cm)
TightThreshold == 5

LooseThreshold == 10

\* min(chest_diff / 10, 1.0), in 1/SeverityDen
TightSeverity(chest_diff) == Min((chest_diff * SeverityDen) \div Cm(10), SeverityDen)

\* min(abs(chest_diff) / 15, 1.0), in 1/SeverityDen
LooseSeverity(chest_diff) == Min((Abs(chest_diff) * SeverityDen) \div Cm(15), SeverityDen)

\* the chest check with chest_diff >= 5 for chest_diff > 5
chest_problem_areas_Inclusive(body, size_measurements) ==
    LET chest_diff == Get(body, "chest_circumference", 0) - size_measurements.chest
    IN  IF "chest" \notin DOMAIN size_measurements THEN <<>>
        ELSE IF chest_diff >= Cm(TightThreshold)
        THEN <<[area |-> "chest", issue |-> "too_tight",
                severity |-> TightSeverity(chest_diff)]>>
        ELSE IF chest_diff < -Cm(LooseThreshold)
        THEN <<[area |-> "chest", issue |-> "too_loose",
                severity |-> LooseSeverity(chest_diff)]>>
        ELSE <<>>

\* "Analyze chest/bust fit": what is appended to problem_areas.  inf > 5 holds
\* and min(inf / 10, 1.0) is 1.0; every comparison with nan is false.
chest_problem_areas(body, size_measurements) ==
    LET kind == IF "chest_circumference" \in DOMAIN body
                THEN BodyKind(body, "chest_circumference") ELSE "fin"
        chest_diff == Get(body, "chest_circumference", 0) - size_measurements.chest
    IN  IF "chest" \notin DOMAIN size_measurements \/ kind = "nan" THEN <<>>
        ELSE IF kind = "inf"
        THEN <<[area |-> "chest", issue |-> "too_tight", severity |-> SeverityDen]>>
        ELSE IF chest_diff > Cm(TightThreshold)
        THEN <<[area |-> "chest", issue |-> "too_tight",
                severity |-> TightSeverity(chest_diff)]>>
        ELSE IF chest_diff < -Cm(LooseThreshold)
        THEN <<[area |-> "chest", issue |-> "too_loose",
                severity |-> LooseSeverity(chest_diff)]>>
        ELSE <<>>

\* visual_adjustments: chest_stretch = chest_diff / 100 when too tight, in
\* 1/(100 * CmDen)
visual_adjustments(body, size_measurements) ==
    LET areas == chest_problem_areas(body, size_measurements)
    IN  IF areas # <<>> /\ areas[1].issue = "too_tight"
        THEN IF BodyKind(body, "chest_circumference") = "inf"
             THEN [chest_stretch |-> 0, special |-> "inf"]
             ELSE [chest_stretch |->
                      Get(body, "chest_circumference", 0) - size_measurements.chest]
        ELSE <<>>

\* sum of the comfort factors 1 - severity * 0.3, in 1/(10 * SeverityDen)
RECURSIVE ComfortFactorSum(_)
ComfortFactorSum(problem_areas) ==
    IF problem_areas = <<>> THEN 0
    ELSE (10 * SeverityDen - 3 * Head(problem_areas).severity)
         + ComfortFactorSum(Tail(problem_areas))

\* the comfort_score fit_analysis starts with
InitialComfortScore == 85

\* the comfort score rounded to the nearest integer, round() for int()
comfort_score_Rounded(problem_areas) ==
    IF problem_areas # <<>>
    THEN (2 * ComfortFactorSum(problem_areas) * 100
            + Len(problem_areas) * 10 * SeverityDen)
            \div (2 * Len(problem_areas) * 10 * SeverityDen)
    ELSE InitialComfortScore

\* int(np.mean(comfort_factors) * 100) if comfort_factors, else the initial
\* value; the factors are positive, so int() rounds down
comfort_score(problem_areas) ==
    IF problem_areas # <<>>
    THEN (ComfortFactorSum(problem_areas) * 100)
            \div (Len(problem_areas) * 10 * SeverityDen)
    ELSE InitialComfortScore

\* calculate_virtual_fit
calculate_virtual_fit(body, product_data, selected_size) ==
    LET chart == Get(product_data, "measurements", <<>>)
        size_measurements == chart[ChartEntry(chart, selected_size)].measurements
        material_properties ==
            estimate_material_properties(Get(product_data, "materials", <<>>))
        problem_areas == chest_problem_areas(body, size_measurements)
    IN  IF selected_size \notin ChartSizes(chart)
        THEN [error |-> "Size not found"]
        ELSE [overall_fit |-> "good",
              problem_areas |-> problem_areas,
              stretch_areas |->
                  IF material_properties.stretch_factor > 0
                  THEN calculate_stretch_areas(body, size_measurements,
                                               material_properties)
                  ELSE <<>>,
              comfort_score |-> comfort_score(problem_areas),
              movement_restriction |-> "minimal",
              visual_adjustments |-> visual_adjustments(body, size_measurements)]

-----------------------------------------------------------------------------
(* SizeRecommendationEngine: body measurements from pose landmarks *)

\* body_keypoints: the index of each landmark, from 1 (the code counts from 0)
nose == 1

left_shoulder == 6

right_shoulder == 7

left_elbow == 8

left_wrist == 10

left_hip == 12

right_hip == 13

left_ankle == 16

right_ankle == 17

\* landmarks_px: [x * width, y * height] of each landmark, whole pixels
landmarks_px(pose_landmarks, image_dimensions) ==
    [i \in 1..Len(pose_landmarks) |->
        <<(pose_landmarks[i].x * image_dimensions[1]) \div NormDen,
          (pose_landmarks[i].y * image_dimensions[2]) \div NormDen>>]

\* (p + q) / 2, doubled to stay whole
Midpoint2(p, q) == <<p[1] + q[1], p[2] + q[2]>>

\* distance.euclidean of two pixel points, in 1/10 pixel, rounded down
Euclidean(p, q) ==
    ISqrt(100 * ((p[1] - q[1]) * (p[1] - q[1]) + (p[2] - q[2]) * (p[2] - q[2])))

\* distance.euclidean of two doubled points, in 1/10 pixel, rounded down
Euclidean2(p2, q2) ==
    ISqrt(25 * ((p2[1] - q2[1]) * (p2[1] - q2[1]) + (p2[2] - q2[2]) * (p2[2] - q2[2])))

\* average_height_cm
average_height_cm == 170

\* the camera distance, in 1/10 m, that distance_correction is normalized to
NormalDistance == 15

\* np.mean of landmark.get('visibility', 1.0), percent, rounded down
RECURSIVE VisibilitySum(_)
VisibilitySum(pose_landmarks) ==
    IF pose_landmarks = <<>> THEN 0
    ELSE Get(Head(pose_landmarks), "visibility", 100)
         + VisibilitySum(Tail(pose_landmarks))

\* a pixel length times pixel_to_cm_ratio (170 / height_px) times num / den,
\* in 1/CmDen cm, rounded down
ToCm(length_px, height_px, num, den) ==
    (length_px * average_height_cm * num * CmDen) \div (height_px * den)

\* length_px * inf * correction: inf, or nan when the length or the correction is 0
TimesInf(length_px, camera_distance) ==
    IF length_px > 0 /\ camera_distance > 0 THEN "inf" ELSE "nan"

\* calculate_body_measurements; camera_distance in 1/10 m.
\* The landmark array is indexed up to right_ankle: a shorter sequence raises
\* IndexError.  distance.euclidean returns a numpy float64, so 170 / height_px
\* with a zero height is inf (numpy warns and goes on) and the measurements
\* are inf or nan.
calculate_body_measurements(pose_landmarks, image_dimensions, camera_distance) ==
    LET px == landmarks_px(pose_landmarks, image_dimensions)
        shoulder_width_px == Euclidean(px[left_shoulder], px[right_shoulder])
        ankle_midpoint2 == Midpoint2(px[left_ankle], px[right_ankle])
        height_px == Euclidean2(<<2 * px[nose][1], 2 * px[nose][2]>>, ankle_midpoint2)
        hip_midpoint2 == Midpoint2(px[left_hip], px[right_hip])
        shoulder_midpoint2 == Midpoint2(px[left_shoulder], px[right_shoulder])
        torso_length_px == Euclidean2(shoulder_midpoint2, hip_midpoint2)
        arm_length_px == Euclidean(px[left_shoulder], px[left_elbow])
                           + Euclidean(px[left_elbow], px[left_wrist])
        hip_width_px == Euclidean(px[left_hip], px[right_hip])
        confidence == VisibilitySum(pose_landmarks) \div Len(pose_landmarks)
        torso_length == ToCm(torso_length_px, height_px, 1, 1)
    IN  IF Len(pose_landmarks) < right_ankle
        THEN [error |-> "IndexError"]
        ELSE IF height_px = 0
        THEN [height |-> 0, shoulder_width |-> 0, chest_circumference |-> 0,
              waist_circumference |-> 0, hip_circumference |-> 0,
              torso_length |-> 0, arm_length |-> 0, inseam |-> 0,
              confidence |-> confidence,
              special |->
                 [height |-> "nan",
                  shoulder_width |-> TimesInf(shoulder_width_px, camera_distance),
                  chest_circumference |-> TimesInf(shoulder_width_px, camera_distance),
                  waist_circumference |-> TimesInf(hip_width_px, camera_distance),
                  hip_circumference |-> TimesInf(hip_width_px, camera_distance),
                  torso_length |-> TimesInf(torso_length_px, 1),
                  arm_length |-> TimesInf(arm_length_px, 1),
                  inseam |-> "nan"]]
        ELSE [height |-> ToCm(height_px, height_px, 1, 1),
              shoulder_width |->
                  ToCm(shoulder_width_px, height_px, camera_distance, NormalDistance),
              chest_circumference |->
                  ToCm(shoulder_width_px, height_px,
                       camera_distance * 28, NormalDistance * 10),
              waist_circumference |->
                  ToCm(hip_width_px, height_px,
                       camera_distance * 25, NormalDistance * 10),
              hip_circumference |->
                  ToCm(hip_width_px, height_px,
                       camera_distance * 28, NormalDistance * 10),
              torso_length |-> torso_length,
              arm_length |-> ToCm(arm_length_px, height_px, 1, 1),
              inseam |-> ((Cm(average_height_cm) - torso_length) * 45) \div 100,
              confidence |-> confidence]

\* the default camera distance of process_size_recommendation, 1.5 m
DefaultCameraDistance == 15

\* process_size_recommendation: measurements, recommendation, virtual fit.  An
\* exception of calculate_body_measurements ends the call.
process_size_recommendation(body_landmarks, image_dimensions, product_data) ==
    LET measurements ==
            calculate_body_measurements(body_landmarks, image_dimensions,
                                        DefaultCameraDistance)
        recommendation ==
            recommend_size(measurements,
                           Get(product_data, "measurements", <<>>),
                           Get(product_data, "type", "clothing"))
    IN  IF "error" \in DOMAIN measurements
        THEN [raised |-> measurements.error]
        ELSE [recommended_size |-> recommendation.recommended_size,
              fit_score |-> recommendation.fit_score,
              confidence |-> recommendation.confidence,
              fit_details |-> recommendation.fit_details,
              alternative_sizes |-> recommendation.alternative_sizes,
              measurement_quality |-> recommendation.measurement_quality,
              virtual_fit |->
                  calculate_virtual_fit(measurements, product_data,
                                        recommendation.recommended_size)]

-----------------------------------------------------------------------------
(* FurniturePlacementEngine: room analysis *)

\* a plane is [normal, boundary], both optional: the normal a vector in 1/100,
\* the boundary a sequence of points <<x, y, z>> in whole metres

\* plane.get('normal', [0, 0, 0])
Normal(plane) == Get(plane, "normal", <<0, 0, 0>>)

\* normal[1] > 0.9, in 1/100
FloorNormalY == 90

\* abs(normal[1]) < 0.1, in 1/100
WallNormalY == 10

\* the floor search with normal y >= 0.9 for normal y > 0.9
find_floor_plane_Inclusive(planes) ==
    IF \E i \in 1..Len(planes) : Normal(planes[i])[2] >= FloorNormalY
    THEN CHOOSE i \in 1..Len(planes) :
            /\ Normal(planes[i])[2] >= FloorNormalY
            /\ \A j \in 1..(i - 1) : ~(Normal(planes[j])[2] >= FloorNormalY)
    ELSE 0

\* _find_floor_plane: the index of the first plane with normal y > 0.9, 0 for None
find_floor_plane(planes) ==
    IF \E i \in 1..Len(planes) : Normal(planes[i])[2] > FloorNormalY
    THEN CHOOSE i \in 1..Len(planes) :
            /\ Normal(planes[i])[2] > FloorNormalY
            /\ \A j \in 1..(i - 1) : ~(Normal(planes[j])[2] > FloorNormalY)
    ELSE 0

\* the loop of _calculate_floor_area: the signed sum over the boundary's edges
RECURSIVE ShoelaceSum(_, _)
ShoelaceSum(points, i) ==
    IF i > Len(points) THEN 0
    ELSE LET j == (i % Len(points)) + 1
         IN  points[i][1] * points[j][3] - points[j][1] * points[i][3]
             + ShoelaceSum(points, i + 1)

\* _calculate_floor_area: abs(area) / 2 in area units, 0 without a boundary
calculate_floor_area(floor_plane) ==
    IF "boundary" \in DOMAIN floor_plane
    THEN (Abs(ShoelaceSum(floor_plane.boundary, 1)) * LenDen * LenDen) \div 2
    ELSE 0

\* _find_available_spaces: the mock 3 x 3 m space 2 m in front
find_available_spaces(floor_plane) ==
    <<[center |-> <<0, 0, -2>>, size |-> <<3 * LenDen, 3 * LenDen>>,
       shape |-> "rectangle"]>>

\* _detect_walls: the planes with a horizontal normal, in order
detect_walls(planes) ==
    SelectSeq(planes, LAMBDA plane : Abs(Normal(plane)[2]) < WallNormalY)

\* _estimate_lighting: intensity is np.mean(depth_map) / 255.0, kept in 1/255
estimate_lighting(depth_mean) ==
    [intensity |-> depth_mean, direction |-> <<0, -1, 0>>, color_temperature |-> 5000]

\* analyze_room_space; the depth map enters by its mean only
analyze_room_space(depth_mean, detected_planes) ==
    LET floor == find_floor_plane(detected_planes)
    IN  [floor_area |-> IF floor # 0 THEN calculate_floor_area(detected_planes[floor])
                        ELSE 0,
         available_spaces |-> IF floor # 0
                              THEN find_available_spaces(detected_planes[floor])
                              ELSE <<>>,
         walls |-> detect_walls(detected_planes),
         obstacles |-> <<>>,
         lighting |-> estimate_lighting(depth_mean),
         recommended_positions |-> <<>>]

-----------------------------------------------------------------------------
(* FurniturePlacementEngine: placement *)

\* inches to metres: * 0.0254, in length units
Inch == 127

DefaultWidth == 36

DefaultHeight == 30

DefaultDepth == 36

furniture_size(furniture_dimensions) ==
    [width |-> Get(furniture_dimensions, "width", DefaultWidth) * Inch,
     height |-> Get(furniture_dimensions, "height", DefaultHeight) * Inch,
     depth |-> Get(furniture_dimensions, "depth", DefaultDepth) * Inch]

\* space.get('size', [0, 0])
space_size(space) == Get(space, "size", <<0, 0>>)

\* _can_fit_furniture
can_fit_furniture(space, size) ==
    LET fits_normal  == size.width <= space_size(space)[1]
                        /\ size.depth <= space_size(space)[2]
        fits_rotated == size.depth <= space_size(space)[1]
                        /\ size.width <= space_size(space)[2]
    IN  fits_normal \/ fits_rotated

\* the stubs _distance_to_wall, _angle_away_from_wall, _angle_along_wall
angle_away_from_wall(position, wall) == 0

angle_along_wall(position, wall) == 0

\* _calculate_optimal_rotation: min(walls, key=distance) is the first wall,
\* every distance being 1.0
calculate_optimal_rotation(space, furniture_type, walls) ==
    IF furniture_type = "sofa" /\ walls # <<>>
    THEN angle_away_from_wall(space.center, walls[1])
    ELSE IF furniture_type = "table" THEN 0
    ELSE IF furniture_type = "tv_stand" /\ walls # <<>>
    THEN angle_along_wall(space.center, walls[1])
    ELSE 0

\* the division of _calculate_placement_confidence by the space's area raises
\* ZeroDivisionError when the area is 0
confidence_raises(space) == space_size(space)[1] * space_size(space)[2] = 0

\* the extra width a sofa needs: 1.0 m
SofaClearance == 1

\* the confidence without the penalty of a size ratio below 0.2
calculate_placement_confidence_NoWaste(space, size, furniture_type) ==
    LET furniture_area == size.width * size.depth
        space_area == space_size(space)[1] * space_size(space)[2]
        sized == IF 5 * furniture_area > 4 * space_area THEN (100 * 7) \div 10
                 ELSE 100
    IN  IF furniture_type = "sofa"
           /\ space_size(space)[1] < size.width + SofaClearance * LenDen
        THEN (sized * 6) \div 10
        ELSE sized

\* _calculate_placement_confidence, percent, for a space of non-zero area
calculate_placement_confidence(space, size, furniture_type) ==
    LET furniture_area == size.width * size.depth
        space_area == space_size(space)[1] * space_size(space)[2]
        sized == IF 5 * furniture_area > 4 * space_area THEN (100 * 7) \div 10
                 ELSE IF 5 * furniture_area < space_area THEN (100 * 8) \div 10
                 ELSE 100
    IN  IF furniture_type = "sofa"
           /\ space_size(space)[1] < size.width + SofaClearance * LenDen
        THEN (sized * 6) \div 10
        ELSE sized

\* _calculate_clearance, doubled: min of the two differences
calculate_clearance(space, size) ==
    Min(space_size(space)[1] - size.width, space_size(space)[2] - size.depth)

\* _assess_position_lighting: intensity > 0.7, > 0.4, with intensity in 1/255
assess_position_lighting(lighting) ==
    IF 10 * lighting.intensity > 7 * 255 THEN "Good"
    ELSE IF 10 * lighting.intensity > 4 * 255 THEN "Moderate"
    ELSE "Low"

\* room_analysis.get('floor_area', 10): 10 m^2
DefaultFloorArea == 10

room_area(room_analysis) ==
    Get(room_analysis, "floor_area", DefaultFloorArea * LenDen * LenDen)

\* the division of _calculate_room_compatibility by the floor area raises
\* ZeroDivisionError when there are spaces and the area is 0
compatibility_raises(room_analysis) ==
    room_analysis.available_spaces # <<>> /\ room_area(room_analysis) = 0

\* _calculate_room_compatibility, percent, when the division is defined:
\* area_ratio > 0.3 is furniture_area > 3 * room_area / 10, area_ratio < 0.05 is
\* furniture_area < room_area / 20
calculate_room_compatibility(room_analysis, size, furniture_type) ==
    LET furniture_area == size.width * size.depth
        area == room_area(room_analysis)
        sized == IF furniture_area > (3 * area) \div 10 THEN (100 * 7) \div 10
                 ELSE IF furniture_area < (area + 19) \div 20 THEN (100 * 8) \div 10
                 ELSE 100
    IN  IF room_analysis.available_spaces = <<>> THEN 0
        ELSE IF furniture_type = "sofa" /\ Get(room_analysis, "walls", <<>>) = <<>>
        THEN (sized * 8) \div 10
        ELSE sized

\* the placement appended for a space the furniture fits in
Placement(room_analysis, space, size, furniture_type) ==
    [position |-> space.center,
     rotation |-> calculate_optimal_rotation(space, furniture_type,
                                             room_analysis.walls),
     scale |-> 1,
     confidence |-> calculate_placement_confidence(space, size, furniture_type),
     clearance |-> calculate_clearance(space, size),
     lighting_quality |-> assess_position_lighting(room_analysis.lighting)]

\* the spaces the loop appends a placement for, in order
fitting_spaces(room_analysis, size) ==
    SelectSeq(room_analysis.available_spaces,
              LAMBDA space : can_fit_furniture(space, size))

\* placements, after placements.sort(key=confidence, reverse=True)
placements(room_analysis, size, furniture_type) ==
    LET fitting == fitting_spaces(room_analysis, size)
    IN  SortDesc([i \in 1..Len(fitting) |->
                     Placement(room_analysis, fitting[i], size, furniture_type)],
                 "confidence")

\* placements[:3]
TopPlacements == 3

\* walking space: clearance < 0.5 m, as the doubled clearance < 1 m
WalkingClearance == 1

NoSpaceWarning == "No suitable space found for this furniture"

LimitedSpaceWarning == "Limited walking space around furniture"

placement_warnings(sorted) ==
    IF sorted = <<>> THEN <<NoSpaceWarning>>
    ELSE IF sorted[1].clearance < WalkingClearance * LenDen
    THEN <<LimitedSpaceWarning>>
    ELSE <<>>

\* calculate_furniture_placement: a ZeroDivisionError of the confidence of a
\* fitting space, or of the room compatibility, ends the call
calculate_furniture_placement(room_analysis, furniture_dimensions, furniture_type) ==
    LET size == furniture_size(furniture_dimensions)
        fitting == fitting_spaces(room_analysis, size)
        sorted == placements(room_analysis, size, furniture_type)
    IN  IF (\E i \in 1..Len(fitting) : confidence_raises(fitting[i]))
           \/ compatibility_raises(room_analysis)
        THEN [raised |-> "ZeroDivisionError"]
        ELSE [recommended_placements |-> Take(sorted, TopPlacements),
              furniture_fits |-> Len(sorted) > 0,
              warnings |-> placement_warnings(sorted),
              room_compatibility_score |->
                  calculate_room_compatibility(room_analysis, size, furniture_type)]

\* process_furniture_placement
process_furniture_placement(depth_mean, detected_planes, dimensions, furniture_type) ==
    calculate_furniture_placement(analyze_room_space(depth_mean, detected_planes),
                                  dimensions, furniture_type)

-----------------------------------------------------------------------------
(* The inputs of the clothing pipeline *)

\* longest size chart
MaxSizes == 4

\* body chest circumferences range over 100 - BodySpread .. 100 + BodySpread
BodySpread == 20

\* longest landmark sequence (17 is the right length)
MaxLandmarks == 18

ProductTypes == {"shirt", "pants", "dress", "jacket", "clothing"}

\* a body with chest c and the waist and hip that go with it
GradedBody(c, confidence) ==
    [chest_circumference |-> c, waist_circumference |-> c - Cm(20),
     hip_circumference |-> c - Cm(4), confidence |-> confidence]

\* bodies differing in the chest by every step of the range, bodies with
\* measurements or the confidence missing, and one of a wide chest and a
\* narrow waist
WideBodies ==
    {GradedBody(c, 95) : c \in Cm(100 - BodySpread)..Cm(100 + BodySpread)}
    \cup {[waist_circumference |-> Cm(80), hip_circumference |-> Cm(96),
           confidence |-> 75],
          [chest_circumference |-> Cm(100)],
          [chest_circumference |-> Cm(106), waist_circumference |-> Cm(66),
           hip_circumference |-> Cm(95), confidence |-> 95]}

FewBodies ==
    {GradedBody(Cm(100), 95), GradedBody(Cm(103), 85), [chest_circumference |-> Cm(100)]}

\* the chart entries a size can have
SizeRows(size) ==
    CASE size = "S"   -> {[chest |-> Cm(94), waist |-> Cm(74), hip |-> Cm(91)]}
      [] size = "M"   -> {[chest |-> Cm(98), waist |-> Cm(78), hip |-> Cm(95)],
                          [chest |-> Cm(98)]}
      [] size = "L"   -> {[chest |-> Cm(104), waist |-> Cm(84), hip |-> Cm(100)],
                          [chest |-> Cm(102)]}
      [] size = "XL"  -> {[chest |-> Cm(101), waist |-> Cm(81), hip |-> Cm(97)],
                          [waist |-> Cm(80), hip |-> Cm(96)]}
      [] size = "XXL" -> {[chest |-> Cm(100), waist |-> Cm(80), hip |-> Cm(96)],
                          [length |-> Cm(70)]}

SizeLabels == {"S", "M", "L", "XL", "XXL"}

ChartItems ==
    UNION {{[size |-> size, measurements |-> row] : row \in SizeRows(size)} :
             size \in SizeLabels}

\* the charts of n sizes: sequences of items, no size twice
RECURSIVE ChartsOfLen(_)
ChartsOfLen(n) ==
    IF n = 0 THEN {<<>>}
    ELSE {Append(chart, item) :
            chart \in ChartsOfLen(n - 1),
            item \in ChartItems}

DistinctSizes(chart) == Cardinality(ChartSizes(chart)) = Len(chart)

Charts(max) ==
    UNION {{chart \in ChartsOfLen(n) : DistinctSizes(chart)} : n \in 0..max}

MaterialLists ==
    {<<>>, <<"Cotton">>, <<"cotton", "stretch">>, <<"stretch cotton", "polyester">>,
     <<"Spandex", "nylon">>, <<"wool">>}

\* a standing pose of right_ankle landmarks, coordinates in 1/NormDen: the
\* shoulders shoulder apart, the ankles at height ankle_y (the nose is at 4),
\* with the visibility given, or without one when it is 0
StandingPose(shoulder, ankle_y, visibility) ==
    LET at(x, y) == IF visibility = 0 THEN [x |-> x, y |-> y]
                    ELSE [x |-> x, y |-> y, visibility |-> visibility]
    IN  << at(20, 4), at(19, 3), at(21, 3), at(18, 4), at(22, 4),
           at(20 - shoulder, 8), at(20 + shoulder, 8),
           at(20 - shoulder - 1, 14), at(20 + shoulder + 1, 14),
           at(20 - shoulder - 1, 19), at(20 + shoulder + 1, 19),
           at(16, 19), at(24, 19),
           at(17, 28), at(23, 28),
           at(18, ankle_y), at(22, ankle_y) >>

\* the first n landmarks of a pose followed, when n is larger, by copies of
\* its last landmark
PoseOfLen(pose, n) ==
    [i \in 1..n |-> IF i <= Len(pose) THEN pose[i] ELSE pose[Len(pose)]]

PoseLengths == {0} \cup (15..MaxLandmarks)

Poses ==
    {PoseOfLen(StandingPose(shoulder, ankle_y, visibility), n) :
        shoulder \in {4, 5}, ankle_y \in {4, 36}, visibility \in {0, 60},
        n \in PoseLengths}

ImageDimensions == {<<480, 640>>, <<640, 480>>}

\* camera distances, 1/10 m
CameraDistances == {10, 15, 20}

-----------------------------------------------------------------------------
(* The calls of the clothing pipeline *)

NoCall == [op |-> "none"]

NoResult == [none |-> TRUE]

Init ==
    /\ pc = "idle"
    /\ call = NoCall
    /\ result = NoResult

\* SizeRecommendationEngine.recommend_size
RecommendSize ==
    /\ pc = "idle"
    /\ \E body \in WideBodies \cup FewBodies, chart \in Charts(MaxSizes),
          product_type \in ProductTypes :
          /\ Len(chart) <= 1 \/ body \in FewBodies
          /\ call' = [op |-> "recommend_size", body_measurements |-> body,
                      product_measurements |-> chart, product_type |-> product_type]
          /\ result' = recommend_size(body, chart, product_type)
    /\ pc' = "returned"

\* SizeRecommendationEngine.calculate_virtual_fit
CalculateVirtualFit ==
    /\ pc = "idle"
    /\ \E body \in WideBodies, chart \in Charts(1), materials \in MaterialLists :
       \E selected_size \in ChartSizes(chart) \cup {"XS"} :
          /\ call' = [op |-> "calculate_virtual_fit", body_measurements |-> body,
                      product_data |-> [measurements |-> chart, materials |-> materials],
                      selected_size |-> selected_size]
          /\ result' = calculate_virtual_fit(body,
                          [measurements |-> chart, materials |-> materials],
                          selected_size)
    /\ pc' = "returned"

\* SizeRecommendationEngine.calculate_body_measurements
CalculateBodyMeasurements ==
    /\ pc = "idle"
    /\ \E pose \in Poses, dims \in ImageDimensions, distance \in CameraDistances :
          /\ call' = [op |-> "calculate_body_measurements", pose_landmarks |-> pose,
                      image_dimensions |-> dims, camera_distance |-> distance]
          /\ result' = calculate_body_measurements(pose, dims, distance)
    /\ pc' = "returned"

\* app.size_recommendation: process_size_recommendation on the request's data
ProcessSizeRecommendation ==
    /\ pc = "idle"
    /\ \E pose \in Poses, dims \in ImageDimensions, chart \in Charts(1),
          product_type \in {"shirt", "clothing"},
          materials \in {<<"Cotton">>, <<"Spandex", "nylon">>} :
          /\ call' = [op |-> "process_size_recommendation", body_landmarks |-> pose,
                      image_dimensions |-> dims,
                      product_data |-> [measurements |-> chart, type |-> product_type,
                                        materials |-> materials]]
          /\ result' = process_size_recommendation(pose, dims,
                          [measurements |-> chart, type |-> product_type,
                           materials |-> materials])
    /\ pc' = "returned"

\* material names of a product, and the lists of at most two of them
MaterialNames ==
    {"Cotton", "cotton", "stretch cotton", "stretch", "Spandex", "elastane",
     "lycra", "linen", "polyester", "nylon", "wool"}

MaterialPairs ==
    {<<>>} \cup {<<first>> : first \in MaterialNames}
           \cup {<<first, second>> : first \in MaterialNames, second \in MaterialNames}

\* SizeRecommendationEngine._estimate_material_properties
EstimateMaterialProperties ==
    /\ pc = "idle"
    /\ \E materials \in MaterialPairs :
          /\ call' = [op |-> "estimate_material_properties", materials |-> materials]
          /\ result' = estimate_material_properties(materials)
    /\ pc' = "returned"

\* the result is returned (jsonify) and nothing of the call is kept
Respond ==
    /\ pc = "returned"
    /\ pc' = "idle"
    /\ call' = NoCall
    /\ result' = NoResult

NextSize ==
    \/ RecommendSize
    \/ CalculateVirtualFit
    \/ CalculateBodyMeasurements
    \/ ProcessSizeRecommendation
    \/ EstimateMaterialProperties
    \/ Respond

SpecSize == Init /\ [][NextSize]_vars

-----------------------------------------------------------------------------
(* The inputs of the furniture pipeline *)

\* most detected planes of a request
MaxPlanes == 2

\* most available spaces of a room analysis given to calculate_furniture_placement
MaxSpaces == 4

\* a w x d m rectangle on the floor
Rectangle(w, d) == <<<<0, 0, 0>>, <<w, 0, 0>>, <<w, 0, d>>, <<0, 0, d>>>>

\* floors with a boundary of 2, 9 and 25 m^2, without a boundary, with a
\* boundary enclosing nothing; a plane tilted to exactly 0.9; walls, one of
\* them without a normal; a ceiling
PlaneChoices ==
    {[normal |-> <<0, 100, 0>>, boundary |-> Rectangle(1, 2)],
     [normal |-> <<0, 95, 30>>, boundary |-> Rectangle(3, 3)],
     [normal |-> <<0, 100, 0>>, boundary |-> Rectangle(5, 5)],
     [normal |-> <<0, 100, 0>>],
     [normal |-> <<0, 100, 0>>, boundary |-> <<<<0, 0, 0>>, <<4, 0, 3>>>>],
     [normal |-> <<40, 90, 0>>, boundary |-> Rectangle(3, 3)],
     [normal |-> <<100, 5, 0>>],
     [boundary |-> Rectangle(3, 3)],
     [normal |-> <<0, -100, 0>>]}

RECURSIVE SeqsOfLen(_, _)
SeqsOfLen(S, n) ==
    IF n = 0 THEN {<<>>}
    ELSE {Append(seq, x) : seq \in SeqsOfLen(S, n - 1), x \in S}

SeqsUpTo(S, max) == UNION {SeqsOfLen(S, n) : n \in 0..max}

\* np.mean(depth_map): of np.zeros((480, 640)), the default, and of a bright map
DepthMeans == {0, 200}

\* furniture dimensions in inches; a missing one has its default.  100 x 30
\* fits a 1 x 3 m space only when turned; 0 x 0 is a request without extent
DimensionChoices ==
    {<<>>, [width |-> 40], [width |-> 100, depth |-> 40],
     [width |-> 130, depth |-> 20], [width |-> 24, depth |-> 12],
     [width |-> 100, depth |-> 30], [width |-> 0, depth |-> 0]}

FurnitureTypes == {"sofa", "table", "tv_stand", "furniture"}

\* available spaces of 3 x 3, 1 x 3, 3 x 1 and 1 x 1 m, and one without a size
SpaceChoices ==
    {[center |-> <<0, 0, -2>>, size |-> <<3 * LenDen, 3 * LenDen>>, shape |-> "rectangle"],
     [center |-> <<1, 0, -2>>, size |-> <<LenDen, 3 * LenDen>>, shape |-> "rectangle"],
     [center |-> <<2, 0, -2>>, size |-> <<3 * LenDen, LenDen>>, shape |-> "rectangle"],
     [center |-> <<3, 0, -2>>, size |-> <<LenDen, LenDen>>, shape |-> "rectangle"],
     [center |-> <<4, 0, -2>>, shape |-> "rectangle"]}

\* spaces the default 36 x 36 inch footprint fills to exactly 0.8 and to
\* exactly 0.2: 36 x 45 and 36 x 180 inches
RatioSpaces ==
    {[center |-> <<5, 0, -2>>, size |-> <<36 * Inch, 45 * Inch>>, shape |-> "rectangle"],
     [center |-> <<6, 0, -2>>, size |-> <<36 * Inch, 180 * Inch>>, shape |-> "rectangle"]}

\* room analyses a caller of calculate_furniture_placement can build: floor
\* areas of 0 and 25 m^2, or none (10 m^2 is assumed); no wall or one
RoomAnalyses ==
    {[floor_area |-> area, available_spaces |-> spaces, walls |-> walls,
      obstacles |-> <<>>, lighting |-> estimate_lighting(200),
      recommended_positions |-> <<>>] :
        area \in {0, 25 * LenDen * LenDen},
        spaces \in SeqsUpTo(SpaceChoices, MaxSpaces),
        walls \in {<<>>, <<[normal |-> <<100, 0, 0>>]>>}}
    \cup
    {[available_spaces |-> spaces, walls |-> <<>>,
      obstacles |-> <<>>, lighting |-> estimate_lighting(0),
      recommended_positions |-> <<>>] :
        spaces \in SeqsUpTo(SpaceChoices, MaxSpaces)}
    \cup
    {[floor_area |-> 25 * LenDen * LenDen, available_spaces |-> <<space>>,
      walls |-> <<>>, obstacles |-> <<>>, lighting |-> estimate_lighting(200),
      recommended_positions |-> <<>>] :
        space \in RatioSpaces}

-----------------------------------------------------------------------------
(* The calls of the furniture pipeline *)

\* FurniturePlacementEngine.analyze_room_space
AnalyzeRoomSpace ==
    /\ pc = "idle"
    /\ \E depth_mean \in DepthMeans, planes \in SeqsUpTo(PlaneChoices, MaxPlanes) :
          /\ call' = [op |-> "analyze_room_space", depth_mean |-> depth_mean,
                      detected_planes |-> planes]
          /\ result' = analyze_room_space(depth_mean, planes)
    /\ pc' = "returned"

\* FurniturePlacementEngine.calculate_furniture_placement
CalculateFurniturePlacement ==
    /\ pc = "idle"
    /\ \E room_analysis \in RoomAnalyses, dimensions \in DimensionChoices,
          furniture_type \in {"sofa", "table"} :
          /\ call' = [op |-> "calculate_furniture_placement",
                      room_analysis |-> room_analysis,
                      furniture_dimensions |-> dimensions,
                      furniture_type |-> furniture_type]
          /\ result' = calculate_furniture_placement(room_analysis, dimensions,
                                                     furniture_type)
    /\ pc' = "returned"

\* app.furniture_placement: process_furniture_placement on the request's data
ProcessFurniturePlacement ==
    /\ pc = "idle"
    /\ \E depth_mean \in DepthMeans, planes \in SeqsUpTo(PlaneChoices, MaxPlanes),
          dimensions \in DimensionChoices, furniture_type \in FurnitureTypes :
          /\ call' = [op |-> "process_furniture_placement", depth_mean |-> depth_mean,
                      detected_planes |-> planes,
                      furniture_dimensions |-> dimensions,
                      furniture_type |-> furniture_type]
          /\ result' = process_furniture_placement(depth_mean, planes, dimensions,
                                                   furniture_type)
    /\ pc' = "returned"

NextRoom ==
    \/ AnalyzeRoomSpace
    \/ CalculateFurniturePlacement
    \/ ProcessFurniturePlacement
    \/ Respond

SpecRoom == Init /\ [][NextRoom]_vars

Next == NextSize \/ NextRoom

Spec == Init /\ [][Next]_vars

-----------------------------------------------------------------------------
(* What a state says about the call that returned *)

Returned(op) == pc = "returned" /\ call.op = op

Raised == "raised" \in DOMAIN result

\* a size recommendation was returned, by recommend_size or by
\* process_size_recommendation
HasRecommendation ==
    \/ Returned("recommend_size")
    \/ Returned("process_size_recommendation") /\ ~Raised

\* the body measurements, the chart and the product type it was computed from
RecBody ==
    IF call.op = "recommend_size" THEN call.body_measurements
    ELSE calculate_body_measurements(call.body_landmarks, call.image_dimensions,
                                     DefaultCameraDistance)

RecChart ==
    IF call.op = "recommend_size" THEN call.product_measurements
    ELSE call.product_data.measurements

RecType ==
    IF call.op = "recommend_size" THEN call.product_type ELSE call.product_data.type

FiniteBody(body) == "special" \notin DOMAIN body

\* the chart's entry for a size
RowOf(chart, size) == chart[ChartEntry(chart, size)].measurements

\* the overall score of a size of the chart
ScoreOfSize(body, chart, product_type, size) ==
    overall_score(fit_scores(body, RowOf(chart, size), product_type))

\* a virtual fit was returned, by calculate_virtual_fit or inside the result of
\* process_size_recommendation
HasVirtualFit ==
    \/ Returned("calculate_virtual_fit")
    \/ Returned("process_size_recommendation") /\ ~Raised

FitBody ==
    IF call.op = "calculate_virtual_fit" THEN call.body_measurements ELSE RecBody

FitChart == call.product_data.measurements

FitSize ==
    IF call.op = "calculate_virtual_fit" THEN call.selected_size
    ELSE result.recommended_size

FitResult ==
    IF call.op = "calculate_virtual_fit" THEN result ELSE result.virtual_fit

\* a virtual fit of a size of the chart with a chest, for a body of finite
\* measurements
HasChestFit ==
    /\ HasVirtualFit
    /\ FiniteBody(FitBody)
    /\ "error" \notin DOMAIN FitResult
    /\ "chest" \in DOMAIN RowOf(FitChart, FitSize)

\* body chest circumference - chart chest of the selected size, in 1/CmDen cm
ChestDiff == Get(FitBody, "chest_circumference", 0) - RowOf(FitChart, FitSize).chest

-----------------------------------------------------------------------------
(* Claims about the clothing pipeline, checked under SpecSize *)

\* C1: every per-measurement score of the rule-based scorer is
\* max(0, 100 - (d/t)*50) for d = |body - chart| and the product type's
\* tolerance t: it lies in [0,100], is 100 when d = 0, is 0 when d >= 2t, and
\* is not larger than the score of any smaller difference.
C1_MeasurementScore ==
    (HasRecommendation /\ FiniteBody(RecBody)) =>
        \A key \in DOMAIN result.fit_details :
            LET entry == result.fit_details[key]
                t == Cm(Tolerance(RecType, key))
                d == Abs(RecBody[BodyKey(key)]
                         - RowOf(RecChart, result.recommended_size)[key])
            IN  /\ entry.difference = d
                /\ entry.score * t = Max(0, 100 * ScoreDen * t - 50 * ScoreDen * d)
                /\ entry.score >= 0 /\ entry.score <= 100 * ScoreDen
                /\ d = 0 => entry.score = 100 * ScoreDen
                /\ d >= 2 * t => entry.score = 0
                /\ \A smaller \in 0..d :
                      MeasurementScore(smaller, Tolerance(RecType, key)) >= entry.score

\* a score on the slope: a difference between 0 and 2t
C1_Witness ==
    /\ Returned("recommend_size")
    /\ \E key \in DOMAIN result.fit_details :
          /\ result.fit_details[key].difference > 0
          /\ result.fit_details[key].score > 0
          /\ result.fit_details[key].score < 100 * ScoreDen

\* C2: alternative_sizes never holds the recommended size, has at most 2
\* entries, holds only sizes of the chart with their overall score, each
\* above 70, in non-increasing score order.
C2_AlternativeSizes ==
    HasRecommendation =>
        LET alts == result.alternative_sizes
        IN  /\ Len(alts) <= 2
            /\ \A i \in 1..Len(alts) :
                  /\ alts[i].size # result.recommended_size
                  /\ alts[i].size \in ChartSizes(RecChart)
                  /\ alts[i].score = ScoreOfSize(RecBody, RecChart, RecType, alts[i].size)
                  /\ alts[i].score > 70 * OverallDen
            /\ \A i \in 1..Len(alts) : \A j \in i..Len(alts) :
                  alts[i].score >= alts[j].score

\* two alternatives returned although more sizes score above 70
C2_Witness ==
    /\ Returned("recommend_size")
    /\ Len(result.alternative_sizes) = 2
    /\ Cardinality({size \in ChartSizes(RecChart) \ {result.recommended_size} :
                      ScoreOfSize(RecBody, RecChart, RecType, size) > 70 * OverallDen}) > 2

\* the example of the specification: body 100 / 80 / 96, sizes M (98, 78, 95)
\* and L (104, 84, 100), a shirt
IsExample ==
    /\ Returned("recommend_size")
    /\ call.product_type = "shirt"
    /\ DOMAIN call.body_measurements
         = {"chest_circumference", "waist_circumference", "hip_circumference",
            "confidence"}
    /\ call.body_measurements.chest_circumference = Cm(100)
    /\ call.body_measurements.waist_circumference = Cm(80)
    /\ call.body_measurements.hip_circumference = Cm(96)
    /\ ChartSizes(RecChart) = {"M", "L"}
    /\ RowOf(RecChart, "M") = [chest |-> Cm(98), waist |-> Cm(78), hip |-> Cm(95)]
    /\ RowOf(RecChart, "L") = [chest |-> Cm(104), waist |-> Cm(84), hip |-> Cm(100)]

\* C3: for a non-empty chart the recommended size is a size of the chart whose
\* overall score is at least that of every size of the chart, and fit_score
\* is that score; in the example M is recommended.
C3_RecommendedIsBest ==
    (HasRecommendation /\ RecChart # <<>>) =>
        /\ result.recommended_size \in ChartSizes(RecChart)
        /\ result.fit_score
             = ScoreOfSize(RecBody, RecChart, RecType, result.recommended_size)
        /\ \A size \in ChartSizes(RecChart) :
              result.fit_score >= ScoreOfSize(RecBody, RecChart, RecType, size)
        /\ IsExample => result.recommended_size = "M"

\* the example with L listed before M
C3_Witness ==
    /\ IsExample
    /\ call.product_measurements[1].size = "L"
    /\ result.recommended_size = "M"

\* C4: with an empty size chart process_size_recommendation returns size "M"
\* with fit_score 0, confidence 0, empty fit_details and alternative_sizes,
\* and no error anywhere in the result, the virtual_fit included.
C4_EmptyChartNoError ==
    (Returned("process_size_recommendation") /\ ~Raised
       /\ call.product_data.measurements = <<>>) =>
        /\ result.recommended_size = "M"
        /\ result.fit_score = 0
        /\ result.confidence = 0
        /\ DOMAIN result.fit_details = {}
        /\ result.alternative_sizes = <<>>
        /\ "error" \notin DOMAIN result.virtual_fit

\* the pixel height from the nose to the midpoint of the ankles is zero
ZeroHeight(pose_landmarks, image_dimensions) ==
    LET px == landmarks_px(pose_landmarks, image_dimensions)
    IN  /\ 2 * px[nose][1] = px[left_ankle][1] + px[right_ankle][1]
        /\ 2 * px[nose][2] = px[left_ankle][2] + px[right_ankle][2]

\* C5: calculate_body_measurements fails with InvalidInput, returning no
\* measurements, when the landmark sequence has not exactly 17 entries or the
\* pixel height is zero.
C5_InvalidInput ==
    (Returned("calculate_body_measurements")
       /\ (Len(call.pose_landmarks) # 17
           \/ ZeroHeight(call.pose_landmarks, call.image_dimensions))) =>
        /\ "error" \in DOMAIN result
        /\ result.error = "InvalidInput"

\* C6: a too_tight chest problem area of severity min(diff/10, 1) is reported
\* exactly when diff > 5 cm, a too_loose one of severity min(|diff|/15, 1)
\* exactly when diff < -10 cm, and none otherwise; there is never more than
\* one problem area and every severity lies in [0,1].
C6_ChestProblemAreas ==
    /\ (HasVirtualFit /\ "error" \notin DOMAIN FitResult) =>
          /\ Len(FitResult.problem_areas) <= 1
          /\ \A i \in 1..Len(FitResult.problem_areas) :
                /\ FitResult.problem_areas[i].severity >= 0
                /\ FitResult.problem_areas[i].severity <= SeverityDen
    /\ HasChestFit =>
          LET areas == FitResult.problem_areas
          IN  /\ ChestDiff > Cm(5) <=>
                    (areas # <<>> /\ areas[1].issue = "too_tight")
              /\ ChestDiff < -Cm(10) <=>
                    (areas # <<>> /\ areas[1].issue = "too_loose")
              /\ \A i \in 1..Len(areas) :
                    /\ areas[i].area = "chest"
                    /\ areas[i].issue = "too_tight" =>
                          areas[i].severity * Cm(10)
                            = Min(ChestDiff * SeverityDen, Cm(10) * SeverityDen)
                    /\ areas[i].issue = "too_loose" =>
                          areas[i].severity * Cm(15)
                            = Min(-ChestDiff * SeverityDen, Cm(15) * SeverityDen)

\* a chest too tight by less than 10 cm: a severity below 1
C6_Witness ==
    /\ Returned("calculate_virtual_fit")
    /\ HasChestFit
    /\ result.problem_areas # <<>>
    /\ result.problem_areas[1].issue = "too_tight"
    /\ result.problem_areas[1].severity < SeverityDen

\* the comfort score of problem areas: the mean of 1 - severity * 0.3, times
\* 100, rounded down
IsTruncatedMean(score, areas) ==
    LET total == ComfortFactorSum(areas) * 100
        unit  == Len(areas) * 10 * SeverityDen
    IN  score * unit <= total /\ total < (score + 1) * unit

\* C7 as claimed: comfort_score is 100 when problem_areas is empty, otherwise
\* the truncated mean; it lies in [0,100].
C7_ComfortScore100 ==
    (HasVirtualFit /\ "error" \notin DOMAIN FitResult) =>
        /\ FitResult.problem_areas = <<>> => FitResult.comfort_score = 100
        /\ FitResult.problem_areas # <<>> =>
              IsTruncatedMean(FitResult.comfort_score, FitResult.problem_areas)
        /\ FitResult.comfort_score >= 0 /\ FitResult.comfort_score <= 100

\* C7 as amended: comfort_score is 85 when problem_areas is empty, otherwise
\* the mean over the problem areas of (1 - severity * 0.3), times 100,
\* truncated to an integer; it lies in [0,100].
C7_ComfortScore ==
    (HasVirtualFit /\ "error" \notin DOMAIN FitResult) =>
        /\ FitResult.problem_areas = <<>> => FitResult.comfort_score = 85
        /\ FitResult.problem_areas # <<>> =>
              IsTruncatedMean(FitResult.comfort_score, FitResult.problem_areas)
        /\ FitResult.comfort_score >= 0 /\ FitResult.comfort_score <= 100

\* a problem area whose comfort factor times 100 is not whole
C7_Witness ==
    /\ Returned("calculate_virtual_fit")
    /\ "error" \notin DOMAIN result
    /\ result.problem_areas # <<>>
    /\ result.comfort_score * Len(result.problem_areas) * 10 * SeverityDen
         < ComfortFactorSum(result.problem_areas) * 100

\* the measurements of chest, waist and hip a size's chart entry shares with
\* the body
PresentIn(body, row) ==
    {key \in {"chest", "waist", "hip"} :
        key \in DOMAIN row /\ BodyKey(key) \in DOMAIN body}

\* the weights C13 tells, in tenths: chest 0.4, waist 0.3, hip 0.3
ClaimedWeight(key) == IF key = "chest" THEN 4 ELSE 3

\* the score of one measurement of a size, in 1/ScoreDen
ScoreOfMeasurement(body, row, product_type, key) ==
    MeasurementScore(Abs(body[BodyKey(key)] - row[key]), Tolerance(product_type, key))

\* the sum over the present measurements of weight, and of weight * score
WeightSum(body, row) ==
    (IF "chest" \in PresentIn(body, row) THEN ClaimedWeight("chest") ELSE 0)
  + (IF "waist" \in PresentIn(body, row) THEN ClaimedWeight("waist") ELSE 0)
  + (IF "hip" \in PresentIn(body, row) THEN ClaimedWeight("hip") ELSE 0)

WeightedScoreSum(body, row, product_type) ==
    (IF "chest" \in PresentIn(body, row)
     THEN ClaimedWeight("chest") * ScoreOfMeasurement(body, row, product_type, "chest")
     ELSE 0)
  + (IF "waist" \in PresentIn(body, row)
     THEN ClaimedWeight("waist") * ScoreOfMeasurement(body, row, product_type, "waist")
     ELSE 0)
  + (IF "hip" \in PresentIn(body, row)
     THEN ClaimedWeight("hip") * ScoreOfMeasurement(body, row, product_type, "hip")
     ELSE 0)

\* score, in 1/OverallDen, is the weighted mean of the size's present
\* measurements
IsWeightedMean(score, body, row, product_type) ==
    /\ score * WeightSum(body, row)
         = WeightedScoreSum(body, row, product_type) * WeightLcm
    /\ score >= 0 /\ score <= 100 * OverallDen
    /\ \A key \in PresentIn(body, row) :
          PresentIn(body, row) = {key} =>
              score = ScoreOfMeasurement(body, row, product_type, key) * WeightLcm
    /\ PresentIn(body, row) = {} => score = 0

\* C13: the overall score of a size is the mean of the scores of the
\* measurements present in the body and in the size's chart entry, weighted
\* chest 0.4, waist 0.3, hip 0.3 and normalised by the weights present; it
\* lies in [0,100], is the single score when one measurement is present and 0
\* when none is.
C13_WeightedMean ==
    (HasRecommendation /\ RecChart # <<>> /\ FiniteBody(RecBody)) =>
        /\ DOMAIN result.fit_details
              = PresentIn(RecBody, RowOf(RecChart, result.recommended_size))
        /\ IsWeightedMean(result.fit_score, RecBody,
                          RowOf(RecChart, result.recommended_size), RecType)
        /\ \A i \in 1..Len(result.alternative_sizes) :
              IsWeightedMean(result.alternative_sizes[i].score, RecBody,
                             RowOf(RecChart, result.alternative_sizes[i].size),
                             RecType)

\* a size recommended on its waist and hip alone, neither score being 0 or 100
C13_Witness ==
    /\ Returned("recommend_size")
    /\ RecChart # <<>>
    /\ DOMAIN result.fit_details = {"waist", "hip"}
    /\ result.fit_details.waist.score # result.fit_details.hip.score
    /\ result.fit_score > 0
    /\ result.fit_score < 100 * OverallDen

\* the descriptions of a measurement too large and of one too small
LooseFits == {"Slightly loose", "Too loose"}

TightFits == {"Slightly tight", "Too tight"}

\* the bucket of a description: the size of the difference against the
\* tolerance t, both in 1/CmDen cm
InFitBucket(fit, difference, t) ==
    IF 2 * Abs(difference) < t THEN fit = "Perfect fit"
    ELSE IF Abs(difference) < t THEN fit = "Good fit"
    ELSE IF 2 * Abs(difference) < 3 * t
         THEN fit \in {"Slightly loose", "Slightly tight"}
         ELSE fit \in {"Too loose", "Too tight"}

\* body - chart of a measurement of the recommended size
SignedDifference(key) ==
    RecBody[BodyKey(key)] - RowOf(RecChart, result.recommended_size)[key]

\* C14: the fit description of a measurement is "Perfect fit" below 0.5 t,
\* "Good fit" below t, a "Slightly" description below 1.5 t and a "Too"
\* description otherwise; the reported difference is the signed difference
\* body - chart, and of two measurements off by t or more in opposite
\* directions one is described as loose and the other as tight.
C14_SignedFitDescription ==
    (HasRecommendation /\ FiniteBody(RecBody)) =>
        \A key \in DOMAIN result.fit_details :
            LET t == Cm(Tolerance(RecType, key))
            IN  /\ result.fit_details[key].difference = SignedDifference(key)
                /\ InFitBucket(result.fit_details[key].fit, SignedDifference(key), t)
                /\ \A other \in DOMAIN result.fit_details :
                      (/\ SignedDifference(key) >= t
                       /\ -SignedDifference(other) >= Cm(Tolerance(RecType, other)))
                      => (result.fit_details[key].fit \in LooseFits
                            <=> result.fit_details[other].fit \in TightFits)

\* what the descriptions are: bucketed by the size of the difference, never
\* a tight one, the difference reported without its sign
C14_UnsignedFitDescription ==
    (HasRecommendation /\ FiniteBody(RecBody)) =>
        \A key \in DOMAIN result.fit_details :
            /\ result.fit_details[key].difference = Abs(SignedDifference(key))
            /\ InFitBucket(result.fit_details[key].fit, SignedDifference(key),
                           Cm(Tolerance(RecType, key)))
            /\ result.fit_details[key].fit \notin TightFits

\* a chest too large and a waist too small for the size, both by more than the
\* tolerance, both described as loose
C14_BothLoose ==
    /\ Returned("recommend_size")
    /\ DOMAIN result.fit_details = {"chest", "waist", "hip"}
    /\ SignedDifference("chest") >= Cm(Tolerance(RecType, "chest"))
    /\ -SignedDifference("waist") >= Cm(Tolerance(RecType, "waist"))
    /\ result.fit_details.chest.fit \in LooseFits
    /\ result.fit_details.waist.fit \in LooseFits

\* the lower-cased text of the materials of the call holds the word
TextHolds(word) == InMaterialText(call.materials, word)

HoldsStretchWord ==
    \E word \in {"spandex", "elastane", "lycra", "stretch"} : TextHolds(word)

\* C15: the stretch_factor is 0.08 when the text of the materials holds
\* cotton and stretch, <<"cotton", "stretch">> being such a list, is 0.15 when
\* it otherwise holds spandex, elastane, lycra or stretch, and is 0 when it
\* holds none of them.
C15_StretchFactor ==
    Returned("estimate_material_properties") =>
        /\ (TextHolds("cotton") /\ TextHolds("stretch")) => result.stretch_factor = 8
        /\ (HoldsStretchWord /\ ~(TextHolds("cotton") /\ TextHolds("stretch")))
              => result.stretch_factor = 15
        /\ ~HoldsStretchWord => result.stretch_factor = 0
        /\ call.materials = <<"cotton", "stretch">> => result.stretch_factor = 8

\* what the stretch_factor is: 0.15 with one of the four words, else 0, and
\* never 0.08
C15_StretchFactorNeverLow ==
    Returned("estimate_material_properties") =>
        /\ result.stretch_factor = (IF HoldsStretchWord THEN 15 ELSE 0)
        /\ result.stretch_factor # 8

-----------------------------------------------------------------------------
(* Claims about the furniture pipeline, checked under SpecRoom *)

\* no detected plane has a normal with y above 0.9
NoFloorPlane(planes) ==
    \A i \in 1..Len(planes) : Get(planes[i], "normal", <<0, 0, 0>>)[2] <= 90

\* a placement was asked for, of calculate_furniture_placement or of
\* process_furniture_placement
IsPlacementCall ==
    \/ Returned("calculate_furniture_placement")
    \/ Returned("process_furniture_placement")

\* the room analysis the placement was computed on
PlacedRoom ==
    IF call.op = "calculate_furniture_placement" THEN call.room_analysis
    ELSE analyze_room_space(call.depth_mean, call.detected_planes)

PlacedSize == furniture_size(call.furniture_dimensions)

\* the placement of a room without spaces
IsNoSpaceResult(placement) ==
    /\ "raised" \notin DOMAIN placement
    /\ placement.furniture_fits = FALSE
    /\ placement.recommended_placements = <<>>
    /\ \E i \in 1..Len(placement.warnings) : placement.warnings[i] = NoSpaceWarning
    /\ placement.room_compatibility_score = 0

\* C8: without a plane of normal y > 0.9 analyze_room_space returns floor_area
\* 0 and no available spaces (and no walls when there is no plane at all), and
\* the placement on that analysis has furniture_fits false, no placements, the
\* "No suitable space found" warning and room_compatibility_score 0.
C8_NoFloorNoPlacement ==
    /\ (Returned("analyze_room_space") /\ NoFloorPlane(call.detected_planes)) =>
          /\ result.floor_area = 0
          /\ result.available_spaces = <<>>
          /\ call.detected_planes = <<>> => result.walls = <<>>
    /\ (Returned("process_furniture_placement") /\ NoFloorPlane(call.detected_planes)) =>
          IsNoSpaceResult(result)
    /\ (Returned("calculate_furniture_placement")
          /\ "floor_area" \in DOMAIN call.room_analysis
          /\ call.room_analysis.floor_area = 0
          /\ call.room_analysis.available_spaces = <<>>) =>
          IsNoSpaceResult(result)

\* a sofa placed in a room of planes none of which is a floor
C8_Witness ==
    /\ Returned("process_furniture_placement")
    /\ call.detected_planes # <<>>
    /\ NoFloorPlane(call.detected_planes)
    /\ call.furniture_type = "sofa"
    /\ ~Raised
    /\ result.furniture_fits = FALSE

\* the available spaces the furniture fits in, by index
FittingIndices ==
    {i \in 1..Len(PlacedRoom.available_spaces) :
        can_fit_furniture(PlacedRoom.available_spaces[i], PlacedSize)}

ConfidenceOf(i) ==
    calculate_placement_confidence(PlacedRoom.available_spaces[i], PlacedSize,
                                   call.furniture_type)

\* what C9 says of a placement that was returned
IsTopPlacements(placement) ==
    LET top == placement.recommended_placements
    IN  /\ Len(top) <= 3
        /\ Len(top) = Min(3, Cardinality(FittingIndices))
        /\ \A k \in 1..Len(top) : \A l \in k..Len(top) :
              top[k].confidence >= top[l].confidence
        /\ \A k \in 1..Len(top) :
              /\ \E i \in FittingIndices :
                    /\ top[k].position = PlacedRoom.available_spaces[i].center
                    /\ top[k].confidence = ConfidenceOf(i)
              /\ Cardinality({i \in FittingIndices :
                                ConfidenceOf(i) > top[k].confidence}) < k
        /\ placement.furniture_fits <=> FittingIndices # {}
        /\ (\E i \in 1..Len(placement.warnings) :
               placement.warnings[i] = NoSpaceWarning)
             <=> ~placement.furniture_fits

\* C9: for every room analysis and furniture calculate_furniture_placement
\* returns at most 3 placements, in non-increasing confidence order, the most
\* confident of the spaces the furniture fits in; furniture_fits is true
\* exactly when a space fits and the "No suitable space found" warning is
\* there exactly when furniture_fits is false.
C9_TopPlacements ==
    IsPlacementCall => (~Raised /\ IsTopPlacements(result))

\* the same of the calls that return
C9_TopPlacementsWhenReturned ==
    (IsPlacementCall /\ ~Raised) => IsTopPlacements(result)

\* the score C10 tells: 0 without spaces, else 1.0, times 0.7 when footprint /
\* floor area > 0.3, times 0.8 when it is < 0.05, times 0.8 for a sofa
\* without walls; percent, for a floor area that is not 0
ExpectedCompatibility ==
    LET footprint == PlacedSize.width * PlacedSize.depth
        area == PlacedRoom.floor_area
        sized == IF 10 * footprint > 3 * area THEN 70
                 ELSE IF 20 * footprint < area THEN 80
                 ELSE 100
    IN  IF PlacedRoom.available_spaces = <<>> THEN 0
        ELSE IF call.furniture_type = "sofa" /\ PlacedRoom.walls = <<>>
        THEN (sized * 8) \div 10
        ELSE sized

\* C10: on every room analysis analyze_room_space returns, a floor plane
\* without boundary or with a boundary of zero area included,
\* calculate_furniture_placement returns a room_compatibility_score in [0,1]:
\* 0 without available spaces, else 1.0 times the penalties.
C10_RoomCompatibility ==
    Returned("process_furniture_placement") =>
        /\ ~Raised
        /\ result.room_compatibility_score >= 0
        /\ result.room_compatibility_score <= 100
        /\ result.room_compatibility_score = ExpectedCompatibility

\* the same of the calls that return
C10_RoomCompatibilityWhenReturned ==
    (Returned("process_furniture_placement") /\ ~Raised) =>
        /\ result.room_compatibility_score >= 0
        /\ result.room_compatibility_score <= 100
        /\ result.room_compatibility_score = ExpectedCompatibility

\* furniture 40 inches wide and of the default depth was placed
IsFortyInch ==
    IsPlacementCall /\ ~Raised /\ call.furniture_dimensions = [width |-> 40]

\* the available spaces of 3 m x 3 m, by index
ThreeByThree ==
    {i \in 1..Len(PlacedRoom.available_spaces) :
        space_size(PlacedRoom.available_spaces[i]) = <<3 * LenDen, 3 * LenDen>>}

\* the furniture fits the space as it stands and turned by 90 degrees
FitsBothOrientations(space) ==
    /\ PlacedSize.width <= space_size(space)[1]
    /\ PlacedSize.depth <= space_size(space)[2]
    /\ PlacedSize.depth <= space_size(space)[1]
    /\ PlacedSize.width <= space_size(space)[2]

\* the confidences of the candidates returned for a space
ReturnedConfidences(space) ==
    {result.recommended_placements[k].confidence :
        k \in {l \in 1..Len(result.recommended_placements) :
                 result.recommended_placements[l].position = space.center}}

\* C11 as claimed: 40-inch furniture in a 3 x 3 m space fits in both
\* orientations and the size-ratio rule takes nothing off the confidence of
\* that candidate: 1.0 for a type other than sofa, 1.0 or 0.6 for a sofa.
C11_FortyInchUnpenalized ==
    IsFortyInch =>
        \A i \in ThreeByThree :
            LET space == PlacedRoom.available_spaces[i]
            IN  /\ FitsBothOrientations(space)
                /\ i \in FittingIndices
                /\ ReturnedConfidences(space)
                      \subseteq (IF call.furniture_type = "sofa" THEN {100, 60}
                                 ELSE {100})

\* C11 as amended: 40-inch furniture in a 3 x 3 m space fits in both
\* orientations, and its footprint, less than 0.2 of the space, costs the
\* candidate the factor 0.8 of the size-ratio rule: the confidence is 0.8 for
\* every type, a sofa having 1 m to spare.
C11_FortyInchPenalized ==
    IsFortyInch =>
        \A i \in ThreeByThree :
            LET space == PlacedRoom.available_spaces[i]
            IN  /\ FitsBothOrientations(space)
                /\ i \in FittingIndices
                /\ 5 * PlacedSize.width * PlacedSize.depth
                      < space_size(space)[1] * space_size(space)[2]
                /\ ReturnedConfidences(space) \subseteq {80}

\* a 40-inch table placed in the one 3 x 3 m space of an analysed room
C11_Witness ==
    /\ Returned("process_furniture_placement")
    /\ IsFortyInch
    /\ call.furniture_type = "table"
    /\ ThreeByThree = {1}
    /\ Len(result.recommended_placements) = 1
    /\ result.recommended_placements[1].confidence = 80

\* the confidence C12 tells for the space of index i, percent: the size
\* ratio is the footprint over the space's area
ExpectedConfidence(i) ==
    LET space == space_size(PlacedRoom.available_spaces[i])
        footprint == PlacedSize.width * PlacedSize.depth
        sized == IF 10 * footprint > 8 * space[1] * space[2] THEN 70
                 ELSE IF 10 * footprint < 2 * space[1] * space[2] THEN 80
                 ELSE 100
    IN  IF call.furniture_type = "sofa" /\ space[1] < PlacedSize.width + LenDen
        THEN (sized * 6) \div 10
        ELSE sized

\* what C12 says of the candidates of a placement that was returned
IsClaimedConfidence ==
    \A i \in FittingIndices :
        /\ ExpectedConfidence(i) \in {100, 80, 70, 60, 48, 42}
        /\ ReturnedConfidences(PlacedRoom.available_spaces[i])
              \subseteq {ExpectedConfidence(j) : j \in FittingIndices}
        /\ Cardinality(FittingIndices) <= 3 =>
              \E k \in 1..Len(result.recommended_placements) :
                  /\ result.recommended_placements[k].position
                        = PlacedRoom.available_spaces[i].center
                  /\ result.recommended_placements[k].confidence
                        = ExpectedConfidence(i)

\* C12: for every space the furniture fits in the placement confidence is
\* defined and is 1.0, times 0.7 when footprint / space area > 0.8, times 0.8
\* when it is < 0.2, times 0.6 for a sofa in a space narrower than its width
\* + 1.0 m: one of 1.0, 0.8, 0.7, 0.6, 0.48, 0.42.
C12_PlacementConfidence ==
    IsPlacementCall =>
        /\ \A i \in FittingIndices :
              space_size(PlacedRoom.available_spaces[i])[1]
                * space_size(PlacedRoom.available_spaces[i])[2] # 0
        /\ ~Raised => IsClaimedConfidence

\* the same of the calls that return
C12_PlacementConfidenceWhenReturned ==
    (IsPlacementCall /\ ~Raised) => IsClaimedConfidence

\* twice the margin around the furniture in a space, as it stands and turned
\* by 90 degrees
MarginAsItStands(space) ==
    Min(space_size(space)[1] - PlacedSize.width, space_size(space)[2] - PlacedSize.depth)

MarginTurned(space) ==
    Min(space_size(space)[1] - PlacedSize.depth, space_size(space)[2] - PlacedSize.width)

\* C16: every candidate calculate_furniture_placement returns reports a
\* clearance that is not negative and is the margin left around the furniture
\* in an orientation in which it fits the candidate's space.
C16_ClearanceNonNegative ==
    (IsPlacementCall /\ ~Raised) =>
        \A k \in 1..Len(result.recommended_placements) :
            LET placement == result.recommended_placements[k]
            IN  /\ placement.clearance >= 0
                /\ \E i \in FittingIndices :
                      LET space == PlacedRoom.available_spaces[i]
                      IN  /\ placement.position = space.center
                          /\ \/ placement.clearance = MarginAsItStands(space)
                                 /\ MarginAsItStands(space) >= 0
                             \/ placement.clearance = MarginTurned(space)
                                 /\ MarginTurned(space) >= 0

\* what the clearance is: the margin of the furniture as it stands, negative
\* exactly when the furniture fits the space only when turned
C16_ClearanceAsItStands ==
    (IsPlacementCall /\ ~Raised) =>
        \A k \in 1..Len(result.recommended_placements) :
            \E i \in FittingIndices :
                LET space == PlacedRoom.available_spaces[i]
                IN  /\ result.recommended_placements[k].position = space.center
                    /\ result.recommended_placements[k].clearance
                          = MarginAsItStands(space)
                    /\ MarginAsItStands(space) < 0 => MarginTurned(space) >= 0

=============================================================================
